---- MODULE Spec2Model ----
(***************************************************************************)
(* Pomodoro session registry (src/main.rs): a mutex-guarded map of timer   *)
(* sessions served by concurrent request handlers.  Every handler locks    *)
(* the registry, runs its body and drops the guard on return.  Time is a   *)
(* monotonic clock counted in ticks of 1/TicksPerSec second; the code only *)
(* sees whole seconds of a duration (Duration::as_secs).                   *)
(*                                                                         *)
(* Spec follows the sessions through time.  SpecBurst is the same registry *)
(* serving a burst of requests within one tick of the clock, which leaves  *)
(* room for more sessions.  In both, inputs keep work_minutes * 60 inside  *)
(* u64.  SpecWide serves create requests whose work_minutes ranges over    *)
(* the whole of u64, with the multiplication of total_work_secs computed   *)
(* at its 64-bit width; SpecWideFair adds fair scheduling.                 *)
(*                                                                         *)
(* History variables record what the handlers have returned.  One group of *)
(* them is kept at a time (watch): Spec keeps the phases of the sessions,  *)
(* SpecSnapshots and SpecFinished are the registry of Spec with the        *)
(* history of snapshots and of Finished reads.                             *)
(***************************************************************************)
EXTENDS Integers, Sequences, FiniteSets, TLC

\* ---- bounds of the model ----
MaxSessions == 1      \* sessions created under Spec
MaxBurst == 2         \* sessions created under SpecBurst
NumHandlers == 2      \* concurrent request handlers
MaxWorkMinutes == 1   \* work_minutes of a create request: 0..MaxWorkMinutes
MaxOffset == 2        \* ticks observed at either end of the longest session
TicksPerSec == 2      \* resolution of the clock

\* work_minutes * 60 (total_work_secs)
SecsPerMinute == 60

Handlers == 1..NumHandlers
Ids == 1..MaxBurst

\* break_minutes of a create request (stored, never read)
BreakMinutes == {5}

\* the instants at which the clock is observed: the first ticks, and the
\* ticks from the end of the longest session on
Instants ==
  {m * MaxWorkMinutes * SecsPerMinute * TicksPerSec + a : m \in 0..1, a \in 0..MaxOffset}

\* Option<T>
None == <<>>
Some(x) == <<x>>
IsSome(o) == o /= <<>>
Unwrap(o) == o[1]

VARIABLES
  now,        \* Instant::now(), in ticks
  next_id,    \* AppState.next_id
  sessions,   \* AppState.sessions : id -> PomodoroSession
  mutex,      \* owner of the registry lock, 0 when free
  pc,         \* position of every handler: "lock" (at state.lock()) or "body"
  resp,       \* the response of the handler that has just returned (NoResp
              \*   otherwise), with the session and registry it found
  created,    \* history: ids returned by completed create calls, in order
  frozen,     \* history: per id, the elapsed_secs a pause of a Running session
              \*   with time left returned, until a resume of that id
  finished_seen, \* history: ids a snapshot reported Finished since their last start
  resumed_from,  \* history: per id, the elapsed_secs and instant of a resume of a
              \*   Paused session with time left, until a start or pause of that id
  start_transitions, \* history: per id, the start calls that changed the stored
              \*   session (counted up to 2)
  max_elapsed,   \* history: per id, the largest elapsed_secs a snapshot has shown
  finished_at,   \* history: per id, the elapsed_secs of the first get that reported
              \*   Finished since the last start, pause or resume of that id
  started_fresh, \* history: per id, the instant of the start that set the session
              \*   Running, until a pause or resume of that id
  watch,         \* which history is kept: "phases" (frozen, finished_seen,
              \*   resumed_from), "snapshots" (start_transitions, max_elapsed,
              \*   started_fresh) or "finished" (finished_at)
  poisoned,      \* the mutex is poisoned: a handler panicked while holding the guard
  overflow_checks \* the build panics on integer overflow (cargo's dev profile)
              \*   or wraps (release profile)

\* the history variables Record maintains
phases == <<frozen, finished_seen, resumed_from>>

snapshots == <<start_transitions, max_elapsed, started_fresh>>

history == <<watch, phases, snapshots, finished_at>>

vars == <<now, next_id, sessions, mutex, pc, resp, created, history,
          poisoned, overflow_checks>>

\* PomodoroSession::new
new(id, work_minutes, break_minutes) ==
  [id |-> id, work_minutes |-> work_minutes, break_minutes |-> break_minutes,
   state |-> "Idle", started_at |-> None, paused_at |-> None, elapsed_secs |-> 0]

total_work_secs(s) == s.work_minutes * SecsPerMinute

\* Instant::saturating_duration_since, in ticks
saturating_duration_since(t, start) == IF t >= start THEN t - start ELSE 0

\* Duration::as_secs: whole seconds of a duration given in ticks
as_secs(d) == d \div TicksPerSec

\* mutant of update_elapsed: the delta replaces elapsed_secs instead of adding
\* to it
update_elapsed_assign(s, t) ==
  IF s.state = "Running" /\ IsSome(s.started_at)
  THEN LET e == as_secs(saturating_duration_since(t, Unwrap(s.started_at)))
       IN [s EXCEPT !.elapsed_secs = e,
                    !.started_at = Some(t),
                    !.state = IF e >= total_work_secs(s) THEN "Finished" ELSE "Running"]
  ELSE s

\* mutant of update_elapsed: Finished only once elapsed_secs has passed the
\* work duration
update_elapsed_late(s, t) ==
  IF s.state = "Running" /\ IsSome(s.started_at)
  THEN LET e == s.elapsed_secs
                  + as_secs(saturating_duration_since(t, Unwrap(s.started_at)))
       IN [s EXCEPT !.elapsed_secs = e,
                    !.started_at = Some(t),
                    !.state = IF e > total_work_secs(s) THEN "Finished" ELSE "Running"]
  ELSE s

\* PomodoroSession::update_elapsed at instant t
update_elapsed(s, t) ==
  IF s.state = "Running" /\ IsSome(s.started_at)
  THEN LET e == s.elapsed_secs
                  + as_secs(saturating_duration_since(t, Unwrap(s.started_at)))
       IN [s EXCEPT !.elapsed_secs = e,
                    !.started_at = Some(t),
                    !.state = IF e >= total_work_secs(s) THEN "Finished" ELSE "Running"]
  ELSE s

saturating_sub(a, b) == IF a >= b THEN a - b ELSE 0

\* mutant of remaining_secs: the countdown is taken before the elapsed time is
\* reconciled
remaining_secs_stale(s, t) ==
  saturating_sub(total_work_secs(s), s.elapsed_secs)

\* PomodoroSession::remaining_secs: the value returned (the session it leaves
\* behind is update_elapsed(s, t))
remaining_secs(s, t) ==
  LET u == update_elapsed(s, t)
  IN saturating_sub(total_work_secs(u), u.elapsed_secs)

\* to_response: works on its own copy of the session
to_response(s, t) ==
  LET u == update_elapsed(s, t)
  IN [id |-> u.id, work_minutes |-> u.work_minutes, break_minutes |-> u.break_minutes,
      state |-> u.state, elapsed_secs |-> u.elapsed_secs,
      remaining_secs |-> remaining_secs(s, t)]

NoResp ==
  [op |-> "none", id |-> 0, status |-> "none", body |-> {}, prev |-> None,
   before |-> [next_id |-> 0, sessions |-> <<>>]]

\* main: AppState::default() behind the mutex, no request yet, in a build with
\* overflow checks on or off
main(checks, kept) ==
  /\ overflow_checks = checks
  /\ watch = kept
  /\ poisoned = FALSE
  /\ now = 0
  /\ next_id = 0
  /\ sessions = <<>>
  /\ mutex = 0
  /\ pc = [h \in Handlers |-> "lock"]
  /\ resp = NoResp
  /\ created = <<>>
  /\ frozen = [i \in Ids |-> None]
  /\ finished_seen = {}
  /\ resumed_from = [i \in Ids |-> None]
  /\ start_transitions = [i \in Ids |-> 0]
  /\ max_elapsed = [i \in Ids |-> 0]
  /\ finished_at = [i \in Ids |-> None]
  /\ started_fresh = [i \in Ids |-> None]

Init == main(TRUE, "phases")

\* the clock moves on to a later instant
Tick ==
  /\ \E t \in Instants : t > now /\ now' = t
  /\ resp' = NoResp
  /\ UNCHANGED <<next_id, sessions, mutex, pc, created, history, poisoned, overflow_checks>>

\* state.lock().unwrap(): the handler of a request that has arrived waits for
\* the mutex and takes it when it is free (and not poisoned)
lock(h) ==
  /\ pc[h] = "lock"
  /\ mutex = 0
  /\ ~poisoned
  /\ mutex' = h
  /\ pc' = [pc EXCEPT ![h] = "body"]
  /\ resp' = NoResp
  /\ UNCHANGED <<now, next_id, sessions, created, history, poisoned, overflow_checks>>

\* seconds the code has counted for s at instant t: elapsed_secs plus the whole
\* seconds since started_at while Running
Accrued(s, t) ==
  IF s.state = "Running" /\ IsSome(s.started_at)
  THEN s.elapsed_secs + ((IF t >= Unwrap(s.started_at) THEN t - Unwrap(s.started_at) ELSE 0)
                          \div TicksPerSec)
  ELSE s.elapsed_secs

\* the history of phases after response r went out
RecordPhases(r) ==
  LET id == r.id
      ok == r.status = "OK"
      hadTime(p) == Accrued(p, now) < p.work_minutes * SecsPerMinute
      snap == CHOOSE x \in r.body : TRUE
  IN /\ frozen' =
          IF ok /\ r.op = "pause" /\ Unwrap(r.prev).state = "Running" /\ hadTime(Unwrap(r.prev))
          THEN [frozen EXCEPT ![id] = Some(snap.elapsed_secs)]
          ELSE IF ok /\ r.op = "resume" THEN [frozen EXCEPT ![id] = None]
          ELSE frozen
     /\ finished_seen' =
          (IF ok /\ r.op = "start" THEN finished_seen \ {id} ELSE finished_seen)
          \cup {x.id : x \in {y \in r.body : y.state = "Finished"}}
     /\ resumed_from' =
          IF ok /\ r.op = "resume" /\ Unwrap(r.prev).state = "Paused" /\ hadTime(Unwrap(r.prev))
          THEN [resumed_from EXCEPT ![id] = Some([elapsed_secs |-> snap.elapsed_secs, at |-> now])]
          ELSE IF ok /\ r.op \in {"start", "pause"} THEN [resumed_from EXCEPT ![id] = None]
          ELSE resumed_from

\* the history of snapshots after response r went out
RecordSnapshots(r) ==
  LET id == r.id
      ok == r.status = "OK"
      snap == CHOOSE x \in r.body : TRUE
  IN /\ start_transitions' =
          IF ok /\ r.op = "start" /\ sessions'[id] /= Unwrap(r.prev) /\ start_transitions[id] < 2
          THEN [start_transitions EXCEPT ![id] = @ + 1]
          ELSE start_transitions
     /\ max_elapsed' =
          [i \in Ids |->
             LET shown == {x.elapsed_secs : x \in {y \in r.body : y.id = i}}
             IN IF \E e \in shown : e > max_elapsed[i]
                THEN CHOOSE e \in shown : e > max_elapsed[i]
                ELSE max_elapsed[i]]
     /\ started_fresh' =
          IF ok /\ r.op = "start" /\ sessions'[id] /= Unwrap(r.prev)
          THEN [started_fresh EXCEPT ![id] = Some(now)]
          ELSE IF ok /\ r.op \in {"pause", "resume"} THEN [started_fresh EXCEPT ![id] = None]
          ELSE started_fresh

\* the history of Finished reads after response r went out
RecordFinished(r) ==
  LET id == r.id
      ok == r.status = "OK"
      snap == CHOOSE x \in r.body : TRUE
  IN finished_at' =
       IF ok /\ r.op \in {"start", "pause", "resume"} THEN [finished_at EXCEPT ![id] = None]
       ELSE IF ok /\ r.op = "get" /\ snap.state = "Finished" /\ finished_at[id] = None
       THEN [finished_at EXCEPT ![id] = Some(snap.elapsed_secs)]
       ELSE finished_at

\* the history variables after response r went out
Record(r) ==
  /\ UNCHANGED watch
  /\ CASE watch = "phases" -> RecordPhases(r) /\ UNCHANGED <<snapshots, finished_at>>
       [] watch = "snapshots" -> RecordSnapshots(r) /\ UNCHANGED <<phases, finished_at>>
       [] watch = "finished" -> RecordFinished(r) /\ UNCHANGED <<phases, snapshots>>

\* the handler returns: the guard is dropped and the response goes out; the
\* handler then serves the next request, which again starts at the lock
Return(h, r) ==
  /\ resp' = r
  /\ mutex' = 0
  /\ pc' = [pc EXCEPT ![h] = "lock"]
  /\ Record(r)
  /\ UNCHANGED <<now, poisoned, overflow_checks>>

\* sessions.get(&id).cloned()
Lookup(id) == IF id \in DOMAIN sessions THEN Some(sessions[id]) ELSE None

Response(op, id, status, body) ==
  [op |-> op, id |-> id, status |-> status, body |-> body, prev |-> Lookup(id),
   before |-> [next_id |-> next_id, sessions |-> sessions]]

\* HashMap::insert
Insert(id, s) == [k \in DOMAIN sessions \cup {id} |-> IF k = id THEN s ELSE sessions[k]]

\* mutant of NotFound: the lookup inserts a default session for the missing id
NotFound_inserts(h, op, id) ==
  /\ Return(h, Response(op, id, "NOT_FOUND", {}))
  /\ sessions' = Insert(id, new(id, 0, 0))
  /\ UNCHANGED <<next_id, created>>

\* ok_or(StatusCode::NOT_FOUND)?
NotFound(h, op, id) ==
  /\ Return(h, Response(op, id, "NOT_FOUND", {}))
  /\ UNCHANGED <<next_id, sessions, created>>

\* The request a handler serves (its path id, its JSON body) is an input of
\* the handler body: nothing reads it before the body runs under the lock.
\* A body runs at one instant: it holds the lock without suspending, and the
\* time between its calls of Instant::now() is below the second as_secs keeps.

\* mutant of create: the incremented counter is not stored
create_stale_counter(h, max) ==
  /\ pc[h] = "body" /\ mutex = h
  /\ next_id < max
  /\ \E work_minutes \in 0..MaxWorkMinutes, break_minutes \in BreakMinutes :
       LET id == next_id + 1
           session == new(id, work_minutes, break_minutes)
       IN /\ next_id' = next_id
          /\ sessions' = Insert(id, session)
          /\ created' = Append(created, to_response(session, now).id)
          /\ Return(h, Response("create", id, "CREATED", {to_response(session, now)}))

\* create_session, while the registry holds fewer than max sessions
create(h, max) ==
  /\ pc[h] = "body" /\ mutex = h
  /\ next_id < max
  /\ \E work_minutes \in 0..MaxWorkMinutes, break_minutes \in BreakMinutes :
       LET id == next_id + 1
           session == new(id, work_minutes, break_minutes)
       IN /\ next_id' = id
          /\ sessions' = Insert(id, session)
          /\ created' = Append(created, to_response(session, now).id)
          /\ Return(h, Response("create", id, "CREATED", {to_response(session, now)}))

create_session(h) == create(h, MaxSessions)

create_session_burst(h) == create(h, MaxBurst)

list_sessions(h) ==
  /\ pc[h] = "body" /\ mutex = h
  /\ Return(h, Response("list", 0, "OK",
                        {to_response(sessions[k], now) : k \in DOMAIN sessions}))
  /\ UNCHANGED <<next_id, sessions, created>>

\* mutant of get_session: the reconciled session is written back to the map
get_session_stores(h) ==
  /\ pc[h] = "body" /\ mutex = h
  /\ \E id \in Ids :
       IF id \notin DOMAIN sessions
       THEN NotFound(h, "get", id)
       ELSE /\ Return(h, Response("get", id, "OK", {to_response(sessions[id], now)}))
            /\ sessions' = [sessions EXCEPT ![id] = update_elapsed(sessions[id], now)]
            /\ UNCHANGED <<next_id, created>>

get_session(h) ==
  /\ pc[h] = "body" /\ mutex = h
  /\ \E id \in Ids :
       IF id \notin DOMAIN sessions
       THEN NotFound(h, "get", id)
       ELSE /\ Return(h, Response("get", id, "OK", {to_response(sessions[id], now)}))
            /\ UNCHANGED <<next_id, sessions, created>>

\* mutant of started: started_at is not set
started_without_instant(s, t) ==
  IF s.state = "Idle" \/ s.state = "Finished"
  THEN [s EXCEPT !.elapsed_secs = 0, !.paused_at = None, !.state = "Running"]
  ELSE s

\* mutant of started: a Paused session is restarted too
started_from_paused(s, t) ==
  IF s.state = "Idle" \/ s.state = "Finished" \/ s.state = "Paused"
  THEN [s EXCEPT !.elapsed_secs = 0, !.started_at = Some(t),
                 !.paused_at = None, !.state = "Running"]
  ELSE s

\* mutant of started: a Running session is started again
started_again(s, t) ==
  IF s.state = "Idle" \/ s.state = "Finished" \/ s.state = "Running"
  THEN [s EXCEPT !.elapsed_secs = 0, !.started_at = Some(t),
                 !.paused_at = None, !.state = "Running"]
  ELSE s

\* the session start_session leaves in the map
started(s, t) ==
  IF s.state = "Idle" \/ s.state = "Finished"
  THEN [s EXCEPT !.elapsed_secs = 0, !.started_at = Some(t),
                 !.paused_at = None, !.state = "Running"]
  ELSE s

start_session(h) ==
  /\ pc[h] = "body" /\ mutex = h
  /\ \E id \in Ids :
       IF id \notin DOMAIN sessions
       THEN NotFound(h, "start", id)
       ELSE LET s == started(sessions[id], now)
            IN /\ sessions' = [sessions EXCEPT ![id] = s]
               /\ Return(h, Response("start", id, "OK", {to_response(s, now)}))
               /\ UNCHANGED <<next_id, created>>

\* mutant of paused: the elapsed time is not reconciled before pausing
paused_without_update(s, t) ==
  IF s.state = "Running"
  THEN [s EXCEPT !.state = "Paused"]
  ELSE s

\* the session pause_session leaves in the map
paused(s, t) ==
  IF s.state = "Running"
  THEN [update_elapsed(s, t) EXCEPT !.state = "Paused"]
  ELSE s

pause_session(h) ==
  /\ pc[h] = "body" /\ mutex = h
  /\ \E id \in Ids :
       IF id \notin DOMAIN sessions
       THEN NotFound(h, "pause", id)
       ELSE LET s == paused(sessions[id], now)
            IN /\ sessions' = [sessions EXCEPT ![id] = s]
               /\ Return(h, Response("pause", id, "OK", {to_response(s, now)}))
               /\ UNCHANGED <<next_id, created>>

\* mutant of resumed: started_at keeps the instant of the pause
resumed_without_instant(s, t) ==
  IF s.state = "Paused"
  THEN [s EXCEPT !.paused_at = None, !.state = "Running"]
  ELSE s

\* mutant of resumed: an Idle session is set Running too
resumed_from_idle(s, t) ==
  IF s.state = "Paused" \/ s.state = "Idle"
  THEN [s EXCEPT !.started_at = Some(t), !.paused_at = None, !.state = "Running"]
  ELSE s

\* the session resume_session leaves in the map
resumed(s, t) ==
  IF s.state = "Paused"
  THEN [s EXCEPT !.started_at = Some(t), !.paused_at = None, !.state = "Running"]
  ELSE s

resume_session(h) ==
  /\ pc[h] = "body" /\ mutex = h
  /\ \E id \in Ids :
       IF id \notin DOMAIN sessions
       THEN NotFound(h, "resume", id)
       ELSE LET s == resumed(sessions[id], now)
            IN /\ sessions' = [sessions EXCEPT ![id] = s]
               /\ Return(h, Response("resume", id, "OK", {to_response(s, now)}))
               /\ UNCHANGED <<next_id, created>>

Next ==
  \/ Tick
  \/ \E h \in Handlers : lock(h)
  \/ \E h \in Handlers : create_session(h)
  \/ \E h \in Handlers : list_sessions(h)
  \/ \E h \in Handlers : get_session(h)
  \/ \E h \in Handlers : start_session(h)
  \/ \E h \in Handlers : pause_session(h)
  \/ \E h \in Handlers : resume_session(h)

Spec == Init /\ [][Next]_vars

\* the same registry with the history of snapshots kept
InitSnapshots == main(TRUE, "snapshots")

SpecSnapshots == InitSnapshots /\ [][Next]_vars

\* the same registry with the history of Finished reads kept
InitFinished == main(TRUE, "finished")

SpecFinished == InitFinished /\ [][Next]_vars

\* the requests of a burst: every route, no tick of the clock
NextBurst ==
  \/ \E h \in Handlers : lock(h)
  \/ \E h \in Handlers : create_session_burst(h)
  \/ \E h \in Handlers : list_sessions(h)
  \/ \E h \in Handlers : get_session(h)
  \/ \E h \in Handlers : start_session(h)
  \/ \E h \in Handlers : pause_session(h)
  \/ \E h \in Handlers : resume_session(h)

SpecBurst == Init /\ [][NextBurst]_vars

\* ---------------------------------------------------------------------
\* create over the whole range of work_minutes.  A u64 is written as its
\* limbs of 16 bits, least significant first, so that work_minutes * 60 is
\* computed at the width the code computes it.
\* ---------------------------------------------------------------------

\* work_minutes: u64
Bits == 64

Limb == 2^16

NumLimbs == Bits \div 16

\* the limbs the work_minutes of a request is built from: 0 .. u64::MAX
WideDigits == {0, Limb - 1}

WideInputs == [1..NumLimbs -> WideDigits]

\* n * k in full: the limbs of the product, then the carry out of the top limb
RECURSIVE wide_mul(_, _, _)
wide_mul(n, k, carry) ==
  IF n = <<>>
  THEN <<carry>>
  ELSE LET p == Head(n) * k + carry
       IN <<p % Limb>> \o wide_mul(Tail(n), k, p \div Limb)

\* the product does not fit the u64
overflows(p) == p[Len(p)] /= 0

\* the u64 a wrapping multiplication leaves
wrapping(p) == SubSeq(p, 1, Len(p) - 1)

\* total_work_secs at 64 bits: self.work_minutes * 60 in full
total_work_secs_wide(s) == wide_mul(s.work_minutes, SecsPerMinute, 0)

\* to_response of a session fresh from new (Idle, elapsed_secs 0), when the
\* multiplication does not panic: update_elapsed leaves it alone and
\* remaining_secs is total_work_secs().saturating_sub(0)
to_response_wide(s) ==
  [id |-> s.id, work_minutes |-> s.work_minutes, break_minutes |-> s.break_minutes,
   state |-> s.state, elapsed_secs |-> s.elapsed_secs,
   remaining_secs |-> wrapping(total_work_secs_wide(s))]

\* the handler panics in its body: unwinding drops the guard of a panicking
\* thread, which poisons the mutex; no response goes out
Panic(h, r) ==
  /\ resp' = r
  /\ mutex' = 0
  /\ pc' = [pc EXCEPT ![h] = "lock"]
  /\ Record(r)
  /\ poisoned' = TRUE
  /\ UNCHANGED <<now, overflow_checks>>

\* create_session for any work_minutes: the session is inserted, then
\* to_response multiplies work_minutes by 60
create_session_wide(h) ==
  /\ pc[h] = "body" /\ mutex = h
  /\ next_id < MaxBurst
  /\ \E work_minutes \in WideInputs, break_minutes \in BreakMinutes :
       LET id == next_id + 1
           session == new(id, work_minutes, break_minutes)
       IN /\ next_id' = id
          /\ sessions' = Insert(id, session)
          /\ IF overflow_checks /\ overflows(total_work_secs_wide(session))
             THEN /\ Panic(h, Response("create", id, "PANIC", {}))
                  /\ UNCHANGED created
             ELSE /\ created' = Append(created, to_response_wide(session).id)
                  /\ Return(h, Response("create", id, "CREATED",
                                        {to_response_wide(session)}))

\* get_session on the registry create_session_wide fills: to_response
\* multiplies the work_minutes of the session found by 60
get_session_wide(h) ==
  /\ pc[h] = "body" /\ mutex = h
  /\ \E id \in Ids :
       IF id \notin DOMAIN sessions
       THEN /\ NotFound(h, "get", id)
       ELSE /\ IF overflow_checks /\ overflows(total_work_secs_wide(sessions[id]))
               THEN Panic(h, Response("get", id, "PANIC", {}))
               ELSE Return(h, Response("get", id, "OK", {to_response_wide(sessions[id])}))
            /\ UNCHANGED <<next_id, sessions, created>>

\* state.lock().unwrap() on the poisoned mutex: lock() returns Err(PoisonError)
\* and unwrap panics; the request ends without having held the guard
lock_poisoned(h) ==
  /\ pc[h] = "lock"
  /\ mutex = 0
  /\ poisoned
  /\ resp' = [NoResp EXCEPT !.op = "lock", !.id = h, !.status = "PANIC"]
  /\ UNCHANGED <<now, next_id, sessions, mutex, pc, created, history,
                 poisoned, overflow_checks>>

InitWide == \E checks \in BOOLEAN : main(checks, "phases")

NextWide ==
  \/ \E h \in Handlers : lock(h)
  \/ \E h \in Handlers : lock_poisoned(h)
  \/ \E h \in Handlers : create_session_wide(h)
  \/ \E h \in Handlers : get_session_wide(h)

SpecWide == InitWide /\ [][NextWide]_vars

\* fair scheduling: a handler that finds the mutex free again and again gets
\* it, and a handler holding the guard runs its body to the end
SpecWideFair ==
  /\ SpecWide
  /\ \A h \in Handlers :
       /\ SF_vars(lock(h))
       /\ WF_vars(lock_poisoned(h))
       /\ WF_vars(create_session_wide(h) \/ get_session_wide(h))



\* ---------------------------------------------------------------------
\* Properties.  They are read in the state a handler leaves when it returns:
\* resp is its response, resp.prev the stored session it found, resp.before
\* the registry it found, sessions the registry it left, now the instant of
\* the call.
\* ---------------------------------------------------------------------

\* a handler has just answered an `op` call on a stored id
Answered(op) == resp.op = op /\ resp.status = "OK"

Prev == Unwrap(resp.prev)

\* the one snapshot of a response to a call on a stored id
Snap == CHOOSE x \in resp.body : TRUE

\* the registry is as the call found it
RegistryUntouched ==
  /\ sessions = resp.before.sessions
  /\ next_id = resp.before.next_id

\* a snapshot of session s with the given state and elapsed_secs, its
\* remaining_secs being work_minutes*60 - elapsed_secs floored at 0
SnapshotOf(s, state, elapsed) ==
  [id |-> s.id, work_minutes |-> s.work_minutes, break_minutes |-> s.break_minutes,
   state |-> state, elapsed_secs |-> elapsed,
   remaining_secs |-> IF s.work_minutes * SecsPerMinute >= elapsed
                      THEN s.work_minutes * SecsPerMinute - elapsed ELSE 0]

\* what get(id) reports of the stored session s at instant t
Reported(s, t) == to_response(s, t)

\* C1: start(id) on a stored Idle session with work_minutes >= 1 returns
\* Running / elapsed_secs 0 / remaining_secs work_minutes*60 and leaves the
\* stored session Running with started_at the instant of the call.
C1_StartFromIdle ==
  (Answered("start") /\ Prev.state = "Idle" /\ Prev.work_minutes >= 1)
  => /\ resp.body = {SnapshotOf(Prev, "Running", 0)}
     /\ Snap.remaining_secs = Prev.work_minutes * SecsPerMinute
     /\ sessions[resp.id].state = "Running"
     /\ sessions[resp.id].started_at = Some(now)
     /\ sessions[resp.id].elapsed_secs = 0

\* a start of an Idle session at an instant after its creation
C1_Witness ==
  /\ Answered("start")
  /\ Prev.state = "Idle" /\ Prev.work_minutes >= 1
  /\ now > 0
  /\ Snap.state = "Running"

\* C2 (as claimed): start(id) issued when get(id) would report Finished, with
\* work_minutes >= 1, resets elapsed_secs to 0, makes the session Running and
\* returns Running / elapsed_secs 0 / remaining_secs work_minutes*60.
C2_RestartFinished ==
  (Answered("start") /\ Prev.work_minutes >= 1
     /\ Reported(Prev, now).state = "Finished")
  => /\ resp.body = {SnapshotOf(Prev, "Running", 0)}
     /\ sessions[resp.id].state = "Running"
     /\ sessions[resp.id].elapsed_secs = 0

\* C3: pause(id) on a Running session with accrued time below work_minutes*60
\* returns Paused with elapsed_secs the accrued time, and every later get(id)
\* reports Paused with that elapsed_secs until a resume(id) is applied.
C3_PauseFreezes ==
  /\ (Answered("pause") /\ Prev.state = "Running"
        /\ Accrued(Prev, now) < Prev.work_minutes * SecsPerMinute)
     => /\ resp.body = {SnapshotOf(Prev, "Paused", Accrued(Prev, now))}
        /\ frozen[resp.id] = Some(Accrued(Prev, now))
  /\ (Answered("get") /\ IsSome(frozen[resp.id]))
     => /\ Snap.state = "Paused"
        /\ Snap.elapsed_secs = Unwrap(frozen[resp.id])

\* a get of a session that was paused at an earlier instant with a positive
\* elapsed_secs
C3_Witness ==
  /\ Answered("get")
  /\ IsSome(frozen[resp.id])
  /\ Unwrap(frozen[resp.id]) > 0
  /\ Snap.state = "Paused"
  /\ Unwrap(sessions[resp.id].started_at) < now

\* C4 (as claimed): pause(id) when get(id) would report Idle, Paused or
\* Finished returns that same state and elapsed_secs, and so does a get(id)
\* at that same instant.  Stated for the sessions of the data model
\* (work_minutes >= 1).
C4_PauseNoOp ==
  (Answered("pause") /\ Prev.work_minutes >= 1
     /\ Reported(Prev, now).state \in {"Idle", "Paused", "Finished"})
  => /\ Snap.state = Reported(Prev, now).state
     /\ Snap.elapsed_secs = Reported(Prev, now).elapsed_secs
     /\ Reported(sessions[resp.id], now).state = Reported(Prev, now).state
     /\ Reported(sessions[resp.id], now).elapsed_secs = Reported(Prev, now).elapsed_secs

\* C5 (as claimed): once a snapshot of a session reports Finished, every later
\* snapshot of it returned by get, list, pause or resume reports Finished,
\* until a start(id).  Stated for the sessions of the data model
\* (work_minutes >= 1).  A snapshot that is not Finished adds nothing to
\* finished_seen, so its id is in finished_seen only if an earlier snapshot
\* put it there.
C5_FinishedStays ==
  resp.op \in {"get", "list", "pause", "resume"}
  => \A x \in resp.body :
       (x.id \in finished_seen /\ x.work_minutes >= 1) => x.state = "Finished"

\* C6: start(id) on a stored Running or Paused session changes nothing in the
\* registry; on a Paused session the snapshot is still Paused with the frozen
\* elapsed_secs.
C6_StartNoOp ==
  (Answered("start") /\ Prev.state \in {"Running", "Paused"})
  => /\ RegistryUntouched
     /\ Prev.state = "Paused"
        => /\ Snap.state = "Paused"
           /\ Snap.elapsed_secs = Prev.elapsed_secs

\* a start of a session paused at an earlier instant, with time on its clock
C6_Witness ==
  /\ Answered("start")
  /\ Prev.state = "Paused"
  /\ Prev.elapsed_secs > 0
  /\ Unwrap(Prev.started_at) < now
  /\ sessions[resp.id] = Prev

\* C7: resume(id) on a session Paused with e < work_minutes*60 returns Running
\* with elapsed_secs e, e being the value its pause froze, and a get(id) d
\* seconds later with e + d < work_minutes*60 reports Running with
\* elapsed_secs e + d.
C7_ResumeAccrues ==
  /\ \A id \in DOMAIN sessions :
       IsSome(frozen[id]) => /\ sessions[id].state = "Paused"
                             /\ sessions[id].elapsed_secs = Unwrap(frozen[id])
  /\ (Answered("resume") /\ Prev.state = "Paused"
        /\ Prev.elapsed_secs < Prev.work_minutes * SecsPerMinute)
     => /\ resp.body = {SnapshotOf(Prev, "Running", Prev.elapsed_secs)}
        /\ resumed_from[resp.id] = Some([elapsed_secs |-> Prev.elapsed_secs, at |-> now])
  /\ (Answered("get") /\ IsSome(resumed_from[resp.id]))
     => LET r == Unwrap(resumed_from[resp.id])
            d == (now - r.at) \div TicksPerSec
        IN r.elapsed_secs + d < Prev.work_minutes * SecsPerMinute
             => /\ Snap.state = "Running"
                /\ Snap.elapsed_secs = r.elapsed_secs + d

\* a get at least a second after a resume that followed a pause with a
\* positive elapsed_secs
C7_Witness ==
  /\ Answered("get")
  /\ IsSome(resumed_from[resp.id])
  /\ Unwrap(resumed_from[resp.id]).elapsed_secs > 0
  /\ Unwrap(resumed_from[resp.id]).at + TicksPerSec <= now
  /\ Snap.state = "Running"
  /\ Snap.elapsed_secs > Unwrap(resumed_from[resp.id]).elapsed_secs

\* C8: resume(id) on a stored session that is not Paused changes nothing in
\* the registry and returns the snapshot get(id) would return at that instant.
C8_ResumeNoOp ==
  (Answered("resume") /\ Prev.state /= "Paused")
  => /\ RegistryUntouched
     /\ resp.body = {Reported(Prev, now)}

\* a resume of a Running session whose time has run out
C8_Witness ==
  /\ Answered("resume")
  /\ Prev.state = "Running"
  /\ Prev.work_minutes >= 1
  /\ Snap.state = "Finished"
  /\ sessions[resp.id] = Prev

\* C9: get, start, pause and resume of an id that is no key of the registry
\* return NotFound and leave the sessions and the id counter as they were.
C9_NotFound ==
  (resp.op \in {"get", "start", "pause", "resume"}
     /\ resp.id \notin DOMAIN resp.before.sessions)
  => /\ resp.status = "NOT_FOUND"
     /\ resp.body = {}
     /\ RegistryUntouched

\* a NotFound answer from a registry that holds a session
C9_Witness ==
  /\ resp.status = "NOT_FOUND"
  /\ resp.op \in {"get", "start", "pause", "resume"}
  /\ resp.id \notin DOMAIN sessions
  /\ next_id >= 1

NoDuplicates(seq) == \A i, j \in 1..Len(seq) : i /= j => seq[i] /= seq[j]

\* C10: after n completed create calls the id counter is n, the keys of the
\* registry are 1..n, every stored session carries its key as id, and no two
\* create calls returned the same id.
C10_UniqueIds ==
  /\ next_id = Len(created)
  /\ DOMAIN sessions = 1..Len(created)
  /\ \A k \in DOMAIN sessions : sessions[k].id = k
  /\ NoDuplicates(created)

\* the second create call has just returned, other handlers being at the lock
C10_Witness ==
  /\ Len(created) >= 2
  /\ resp.op = "create"
  /\ resp.id = 2

\* C11: of the start calls that reach the same Idle session concurrently, the
\* lock lets exactly one perform the transition to Running; every other one
\* finds the session Running and leaves its stored state, elapsed_secs and
\* started_at as they were.
C11_OneStartWins ==
  Answered("start") =>
    /\ start_transitions[resp.id] = 1
    /\ Prev.state = "Idle" =>
         /\ sessions[resp.id].state = "Running"
         /\ sessions[resp.id].started_at = Some(now)
    /\ Prev.state = "Running" =>
         /\ sessions[resp.id].state = Prev.state
         /\ sessions[resp.id].elapsed_secs = Prev.elapsed_secs
         /\ sessions[resp.id].started_at = Prev.started_at

\* a start that waited at the lock behind the winning start returns: it found
\* the session as the winner left it, no pause or resume in between
C11_Witness ==
  /\ Answered("start")
  /\ Prev.state = "Running"
  /\ IsSome(started_fresh[resp.id])
  /\ Prev.started_at = started_fresh[resp.id]
  /\ Unwrap(Prev.started_at) < now
  /\ start_transitions[resp.id] = 1
  /\ sessions[resp.id] = Prev

\* C12: in every snapshot a handler returns (create, list, get, start, pause,
\* resume), remaining_secs equals max(0, work_minutes * 60 - elapsed_secs) of
\* the same snapshot.
C12_RemainingMatches ==
  \A x \in resp.body :
    x.remaining_secs = IF x.work_minutes * SecsPerMinute >= x.elapsed_secs
                       THEN x.work_minutes * SecsPerMinute - x.elapsed_secs
                       ELSE 0

\* a snapshot whose elapsed_secs has passed the work duration: the difference
\* is negative and remaining_secs is clamped to 0
C12_Witness ==
  \E x \in resp.body :
    /\ x.work_minutes >= 1
    /\ x.elapsed_secs > x.work_minutes * SecsPerMinute
    /\ x.remaining_secs = 0

\* C13: the elapsed_secs of a session never decreases from one snapshot of its
\* id to a later one, whatever operations and clock advances lie between:
\* every snapshot shows at least the largest elapsed_secs shown before.
C13_ElapsedMonotonic ==
  \A x \in resp.body : x.elapsed_secs >= max_elapsed[x.id]

\* a start answers for a session that has already counted time: its snapshot
\* does not fall back to 0
C13_Witness ==
  /\ Answered("start")
  /\ Prev.elapsed_secs > 0
  /\ Snap.elapsed_secs >= Prev.elapsed_secs
  /\ max_elapsed[resp.id] = Snap.elapsed_secs

\* C14: create succeeds for any input values: it stores an Idle session with
\* elapsed_secs 0 and started_at None under the newly allocated id and returns
\* a snapshot with state Idle, elapsed_secs 0 and remaining_secs
\* work_minutes * 60; the first create on an empty registry returns id 1.
C14_CreateSucceeds ==
  resp.op = "create" =>
    /\ resp.status = "CREATED"
    /\ resp.id = resp.before.next_id + 1
    /\ resp.id \notin DOMAIN resp.before.sessions
    /\ resp.before.next_id = 0 => resp.id = 1
    /\ sessions[resp.id].state = "Idle"
    /\ sessions[resp.id].elapsed_secs = 0
    /\ sessions[resp.id].started_at = None
    /\ \E x \in resp.body :
         /\ x.id = resp.id
         /\ x.state = "Idle"
         /\ x.elapsed_secs = 0
         /\ x.remaining_secs \o <<0>> = wide_mul(x.work_minutes, SecsPerMinute, 0)

\* C15: in every reachable state every stored session has started_at set
\* (Some) if and only if its stored state is Running; a session that has been
\* paused has started_at cleared.
\* (Read on the sessions with work_minutes >= 1.)
C15_StartedAtIffRunning ==
  \A id \in DOMAIN sessions :
    sessions[id].work_minutes >= 1 =>
      (IsSome(sessions[id].started_at) <=> sessions[id].state = "Running")

\* C16: reading reconciles the stored session, not only the snapshot: after
\* get(id) or list on a session that is Running, the stored elapsed_secs
\* includes the time accrued up to the call, the stored started_at is the
\* instant of the call, and the stored state is Finished if the accrued time
\* has reached work_minutes * 60.
C16_ReadReconcilesStored ==
  (resp.op \in {"get", "list"} /\ resp.status = "OK") =>
    \A x \in resp.body :
      LET found == resp.before.sessions[x.id]
      IN (found.state = "Running" /\ found.work_minutes >= 1) =>
           /\ sessions[x.id].elapsed_secs = Accrued(found, now)
           /\ sessions[x.id].started_at = Some(now)
           /\ sessions[x.id].state =
                IF Accrued(found, now) >= found.work_minutes * SecsPerMinute
                THEN "Finished" ELSE "Running"

\* C17: elapsed_secs is frozen while the session is not Running: two get(id)
\* calls that both report Finished, with no start, pause or resume of that id
\* between them, report the same elapsed_secs however far the clock advanced
\* between the two.
C17_FinishedFrozen ==
  (Answered("get") /\ Snap.state = "Finished" /\ Snap.work_minutes >= 1) =>
    Snap.elapsed_secs = Unwrap(finished_at[resp.id])

\* C18: reads never count time twice: for a session started at instant t0 and
\* not paused since, a get at instant t with t - t0 < work_minutes * 60 s
\* reports Running and elapsed_secs equal to the seconds from t0 to t (whole
\* seconds, as elapsed_secs counts them), however many get or list calls
\* were made in between.
C18_NoDoubleCount ==
  (Answered("get") /\ IsSome(started_fresh[resp.id])) =>
    LET t0 == Unwrap(started_fresh[resp.id])
    IN now - t0 < Snap.work_minutes * SecsPerMinute * TicksPerSec =>
         /\ Snap.state = "Running"
         /\ Snap.elapsed_secs = (now - t0) \div TicksPerSec

\* a get a whole second or more after the start, within the work time
C18_Witness ==
  /\ Answered("get")
  /\ IsSome(started_fresh[resp.id])
  /\ Prev.started_at = started_fresh[resp.id]
  /\ Snap.state = "Running"
  /\ Snap.elapsed_secs >= 1

\* C20: the state of every returned snapshot agrees with its countdown: a
\* Finished snapshot has elapsed_secs >= work_minutes * 60 and remaining_secs
\* 0; a Running snapshot has elapsed_secs < work_minutes * 60 and
\* remaining_secs > 0.
C20_StateAgreesWithCountdown ==
  \A x \in resp.body :
    /\ x.state = "Finished" =>
         /\ x.elapsed_secs >= x.work_minutes * SecsPerMinute
         /\ x.remaining_secs = 0
    /\ x.state = "Running" =>
         /\ x.elapsed_secs < x.work_minutes * SecsPerMinute
         /\ x.remaining_secs > 0

\* a snapshot taken at the very second the work time runs out: Finished, with
\* elapsed_secs equal to the work duration
C20_Witness ==
  \E x \in resp.body :
    /\ x.work_minutes >= 1
    /\ x.state = "Finished"
    /\ x.elapsed_secs = x.work_minutes * SecsPerMinute

\* C19: the registry lock never deadlocks: at most one handler holds the lock
\* at a time, and under fair scheduling every request that starts waiting for
\* the lock eventually acquires it, completes and releases it, requests that
\* end in NotFound included.
C19_LockLive ==
  \A h \in Handlers :
    /\ [](pc[h] = "body" <=> mutex = h)
    /\ (pc[h] = "lock") ~> (pc[h] = "body")
    /\ (pc[h] = "body") ~> (pc[h] = "lock" /\ mutex /= h)
====
